---- MODULE Spec2Model ----
(***************************************************************************)
(* A model of AIGenerator.generate_response (backend/ai_generator.py): the *)
(* bounded, sequential tool-calling loop.  One call of generate_response   *)
(* is a process c; its locals (api_params, response, round_num,            *)
(* tool_results, tool_failed, the position in response.content) are the    *)
(* state.  The model client and the tool manager are the environment:      *)
(* every messages.create returns some response or raises, every            *)
(* execute_tool returns a string or raises.  Strings are sequences of      *)
(* chunks, so that concatenation (f-strings) is \o.                        *)
(***************************************************************************)
EXTENDS Integers, Sequences, FiniteSets, TLC

\* AIGenerator.MAX_TOOL_ROUNDS
MAX_TOOL_ROUNDS == 2

\* Longest response.content the model client returns in the model.
MaxBlocks == 2

\* Concurrent calls of generate_response on one generator.
Procs == {1, 2}

----------------------------------------------------------------------------
\* Python values

\* Optional[...] arguments: None, or a value.
None == [none |-> TRUE]
Some(v) == [none |-> FALSE, val |-> v]

\* Python truthiness of an Optional[str] / Optional[List]: None, "" and [] are falsy.
Truthy(o) == ~o.none /\ o.val # <<>>

\* dict.pop(k, None) and d[k] = v on a dict modelled as a function of its keys.
Pop(d, k) == [x \in DOMAIN d \ {k} |-> d[x]]
Put(d, k, v) == [x \in DOMAIN d \cup {k} |-> IF x = k THEN v ELSE d[x]]

Digit == <<"1", "2", "3", "4", "5", "6">>

----------------------------------------------------------------------------
\* Inputs of generate_response

Queries == {<<"search python">>}
Histories == {None, Some(<<"User: hello\nAI: hi there">>)}
HistoriesWithEmpty == Histories \cup {Some(<<>>)}
sample_tools == <<[name |-> "search_course_content", description |-> "Search"]>>
ToolLists == {None, Some(<<>>), Some(sample_tools)}
ToolManagers == {None, Some("ToolManager")}

\* `not tool_manager`: a ToolManager object is truthy, None is not.
HasManager(m) == ~m.none

Args == [query : Queries, conversation_history : Histories,
         tools : ToolLists, tool_manager : ToolManagers]
NoArgs == [query |-> <<"search python">>, conversation_history |-> None,
           tools |-> None, tool_manager |-> None]

----------------------------------------------------------------------------
\* What the collaborators can answer

ToolNames == <<"search_course_content", "get_course_outline">>
ToolInputs == <<[query |-> "python"], [course_title |-> "MCP"]>>

\* The content blocks of the k-th response of a call: the text block or the
\* tool_use block at position i (texts and ids are unique over the
\* conversation).
TextBlock(k, i) ==
    [type |-> "text", text |-> <<"Answer of response ", Digit[k], " block ", Digit[i]>>]
ToolUseBlock(k, i) ==
    [type |-> "tool_use", id |-> [call |-> k, pos |-> i],
     name |-> ToolNames[((i - 1) % 2) + 1], input |-> ToolInputs[((i - 1) % 2) + 1]]

Shapes == UNION {[1..n -> {"text", "tool_use"}] : n \in 0..MaxBlocks}
ContentOf(k, shape) ==
    [i \in 1..Len(shape) |-> IF shape[i] = "text" THEN TextBlock(k, i) ELSE ToolUseBlock(k, i)]

StopReasons == {"end_turn", "tool_use", "max_tokens"}

\* What a model client may answer: the mocked client of a run is one of these.
AnyClient == [stop_reasons |-> StopReasons, shapes |-> Shapes]
SmallClient == [stop_reasons |-> {"end_turn", "tool_use"},
                shapes |-> {<<"text">>, <<"tool_use">>}]
Responses(cl, k) ==
    {[stop_reason |-> s, content |-> ContentOf(k, sh)] :
        s \in cl.stop_reasons, sh \in cl.shapes}

\* execute_tool returns a string or raises an Exception carrying a message.
\* The manager holds the tools of sample_tools: for another name it returns
\* the not-found text.
RegisteredTools == {"search_course_content"}
ReturnOf(name) ==
    IF name \in RegisteredTools THEN <<"tool result text">>
    ELSE <<"Tool '", name, "' not found">>
ToolOutcomes(name) == {[raised |-> FALSE, value |-> ReturnOf(name)],
                       [raised |-> TRUE, value |-> <<"connection failed">>]}

----------------------------------------------------------------------------
VARIABLES
    client,        \* self.client: what the model client of the run may answer
    pc,            \* where each call is
    args,          \* the arguments of each call
    api_params,    \* the dict handed to messages.create
    response,      \* the latest response
    round_num,     \* the loop variable
    blk,           \* position of the inner loop in response.content
    tool_results,  \* the round's results so far
    tool_failed,   \* whether a tool raised in this round
    calls,         \* history: the keyword arguments of every messages.create
    replies,       \* history: every response messages.create returned
    execs,         \* history: every execute_tool call and its outcome
    answer         \* the returned string

vars == <<client, pc, args, api_params, response, round_num, blk, tool_results,
          tool_failed, calls, replies, execs, answer>>

NoResponse == [stop_reason |-> "none", content |-> <<>>]
EmptyDict == <<>>

----------------------------------------------------------------------------
\* The pieces of generate_response

\* AIGenerator.__init__: self.base_params
base_params == [model |-> "test-model", temperature |-> 0, max_tokens |-> 800]

SYSTEM_PROMPT == <<"SYSTEM_PROMPT">>

\* Mutant: the dict is kept on the generator and shared by its calls.
SlotShared(c) == 1

\* The dict a call works on: each call builds its own.
Slot(c) == c

\* Mutant: the history is appended whenever it is not None.
SystemContentIfNotNone(conversation_history) ==
    IF ~conversation_history.none
    THEN SYSTEM_PROMPT \o <<"\n\nPrevious conversation:\n">> \o conversation_history.val
    ELSE SYSTEM_PROMPT

system_content(conversation_history) ==
    IF Truthy(conversation_history)
    THEN SYSTEM_PROMPT \o <<"\n\nPrevious conversation:\n">> \o conversation_history.val
    ELSE SYSTEM_PROMPT

\* Mutant: schemas are added whenever the argument is given, even when empty.
InitialParamsIfNotNone(a) ==
    LET p == Put(Put(base_params, "messages", <<[role |-> "user", content |-> a.query]>>),
                 "system", system_content(a.conversation_history))
    IN IF ~a.tools.none
       THEN Put(Put(p, "tools", a.tools.val), "tool_choice", [type |-> "auto"])
       ELSE p

\* Lines 76-85: api_params, with tools and tool_choice added under "if tools:".
InitialParams(a) ==
    LET p == Put(Put(base_params, "messages", <<[role |-> "user", content |-> a.query]>>),
                 "system", system_content(a.conversation_history))
    IN IF Truthy(a.tools)
       THEN Put(Put(p, "tools", a.tools.val), "tool_choice", [type |-> "auto"])
       ELSE p

\* Mutant: the range runs one round too far.
InRangeOffByOne(rn) == rn <= MAX_TOOL_ROUNDS

\* for round_num in range(self.MAX_TOOL_ROUNDS)
InRange(rn) == rn < MAX_TOOL_ROUNDS

\* Mutant: only an end_turn response ends the loop.
BreakLoopOnEndTurn(resp, tool_manager) ==
    resp.stop_reason = "end_turn" \/ ~HasManager(tool_manager)

\* Mutant: a tool_use response without a tool_use block ends the loop.
BreakLoopWhenNoToolUse(resp, tool_manager) ==
    \/ resp.stop_reason # "tool_use"
    \/ ~HasManager(tool_manager)
    \/ \A i \in DOMAIN resp.content : resp.content[i].type # "tool_use"

\* Mutant: the loop does not look at the tool manager.
BreakLoopIgnoresManager(resp, tool_manager) == resp.stop_reason # "tool_use"

\* if response.stop_reason != "tool_use" or not tool_manager: break
BreakLoop(resp, tool_manager) ==
    resp.stop_reason # "tool_use" \/ ~HasManager(tool_manager)

\* Mutant: the assistant message keeps only the tool_use blocks.
AssistantMessageToolUsesOnly(resp) ==
    [role |-> "assistant",
     content |-> SelectSeq(resp.content, LAMBDA b : b.type = "tool_use")]

AssistantMessage(resp) == [role |-> "assistant", content |-> resp.content]
UserMessage(results) == [role |-> "user", content |-> results]

\* f"Error executing tool: {e}"
ErrorResult(msg) == <<"Error executing tool: ">> \o msg

\* Mutant: every result is filed under the id of the first content position.
ToolResultFirstId(block, result) ==
    [type |-> "tool_result", tool_use_id |-> [call |-> block.id.call, pos |-> 1],
     content |-> result]

\* Mutant: the block also carries an is_error flag, set for the error text.
ToolResultWithIsError(block, result) ==
    [type |-> "tool_result", tool_use_id |-> block.id, content |-> result,
     is_error |-> (result # <<>> /\ result[1] = "Error executing tool: ")]

\* Lines 108-112: the tool_result dict literal.
ToolResult(block, result) ==
    [type |-> "tool_result", tool_use_id |-> block.id, content |-> result]

\* Mutant: a returned not-found text counts as a failure too.
MarksFailureOnNotFound(o) == o.raised \/ o.value[1] = "Tool '"

\* tool_failed = True is set in the except branch only.
MarksFailure(o) == o.raised

\* Mutant: no try/except, a raising tool leaves generate_response.
AfterToolPropagates(raised) == IF raised THEN "raised" ELSE "exec"

\* try: ... except Exception: the call stays in the round whether or not
\* execute_tool raised.
AfterTool(raised) == "exec"

\* Mutant: a raising tool ends the inner loop.
NextBlockAbortOnRaise(i, raised) == IF raised THEN i + MaxBlocks ELSE i + 1

\* The inner loop goes on to the next block whatever the block's outcome.
NextBlock(i, raised) == i + 1

\* Mutant: the last round is taken to be the one after the budget.
is_last_round_OffByOne(rn) == rn = MAX_TOOL_ROUNDS

is_last_round(rn) == rn = MAX_TOOL_ROUNDS - 1

\* Mutants: the tools are dropped after every round; only after the last one.
RemoveToolsAlways(failed, rn) == TRUE
RemoveToolsOnLastOnly(failed, rn) == rn = MAX_TOOL_ROUNDS - 1

RemoveTools(failed, rn) == failed \/ is_last_round(rn)

ParamsForNextCall(p, failed, rn) ==
    IF RemoveTools(failed, rn) THEN Pop(Pop(p, "tools"), "tool_choice") ELSE p

RECURSIVE FirstText(_, _)
FirstText(content, i) ==
    IF i > Len(content) THEN <<"I was unable to generate a response.">>
    ELSE IF content[i].type = "text" THEN content[i].text
    ELSE FirstText(content, i + 1)

\* Mutants: the last text block is returned; a response without a text
\* block gives the empty string.
ExtractLastText(resp) ==
    LET idx == {i \in DOMAIN resp.content : resp.content[i].type = "text"}
    IN IF idx = {} THEN <<"I was unable to generate a response.">>
       ELSE resp.content[CHOOSE i \in idx : \A j \in idx : j <= i].text
ExtractEmptyWhenNoText(resp) ==
    LET idx == {i \in DOMAIN resp.content : resp.content[i].type = "text"}
    IN IF idx = {} THEN <<>> ELSE FirstText(resp.content, 1)

_extract_text(resp) == FirstText(resp.content, 1)

----------------------------------------------------------------------------
\* The steps of a call

\* The state at the entry of generate_response: call 1 with arguments a1 and,
\* if `second`, a concurrent call 2 with arguments a2, on a generator whose
\* model client is cl.
Start(cl, a1, a2, second) ==
    /\ client = cl
    /\ pc = [c \in Procs |-> IF c = 1 \/ second THEN "start" ELSE "off"]
    /\ args = [c \in Procs |-> IF c = 1 THEN a1 ELSE a2]
    /\ api_params = [c \in Procs |-> EmptyDict]
    /\ response = [c \in Procs |-> NoResponse]
    /\ round_num = [c \in Procs |-> 0]
    /\ blk = [c \in Procs |-> 0]
    /\ tool_results = [c \in Procs |-> <<>>]
    /\ tool_failed = [c \in Procs |-> FALSE]
    /\ calls = [c \in Procs |-> <<>>]
    /\ replies = [c \in Procs |-> <<>>]
    /\ execs = [c \in Procs |-> <<>>]
    /\ answer = [c \in Procs |-> None]

Init == \E a \in Args : Start(AnyClient, a, NoArgs, FALSE)

\* Two concurrent calls on one generator, each with its own query and with
\* or without history and schemas, both with a tool manager.
ArgsConcurrent(q) ==
    [query : {q}, conversation_history : Histories,
     tools : {None, Some(sample_tools)}, tool_manager : {Some("ToolManager")}]
InitConcurrent ==
    \E a1 \in ArgsConcurrent(<<"search python">>), a2 \in ArgsConcurrent(<<"complex query">>) :
        Start(SmallClient, a1, a2, TRUE)

\* One call whose conversation_history is None, "" or a text, with schemas
\* and a tool manager.
InitHistory ==
    \E h \in HistoriesWithEmpty :
        Start(AnyClient,
              [query |-> <<"search python">>, conversation_history |-> h,
               tools |-> Some(sample_tools), tool_manager |-> Some("ToolManager")],
              NoArgs, FALSE)

\* Two calls on one generator given the same arguments.
InitTwin ==
    \E a \in ArgsConcurrent(<<"search python">>) : Start(SmallClient, a, a, TRUE)

\* Two calls on one generator that differ in the history only: call 1 is
\* given None, call 2 the empty string.
InitEmptyHistory ==
    \E t \in {None, Some(sample_tools)} :
        Start(SmallClient,
              [query |-> <<"search python">>, conversation_history |-> None,
               tools |-> t, tool_manager |-> Some("ToolManager")],
              [query |-> <<"search python">>, conversation_history |-> Some(<<>>),
               tools |-> t, tool_manager |-> Some("ToolManager")],
              TRUE)

\* Mutant: the round budget is counted on the generator, over all its calls.
LoopHeadSharedRounds(c, r, rn) ==
    LET others == IF c = 1 THEN round_num[2] ELSE round_num[1]
    IN IF ~InRange(rn + others) \/ BreakLoop(r, args[c].tool_manager)
       THEN /\ answer' = [answer EXCEPT ![c] = Some(_extract_text(r))]
            /\ pc' = [pc EXCEPT ![c] = "done"]
       ELSE /\ pc' = [pc EXCEPT ![c] = "round"]
            /\ UNCHANGED answer

\* Mutant: when the last response has no text block, the text of the call's
\* first response is returned.
LoopHeadKeepsEarlierText(c, r, rn) ==
    IF ~InRange(rn) \/ BreakLoop(r, args[c].tool_manager)
    THEN /\ answer' = [answer EXCEPT ![c] =
               IF (\A i \in DOMAIN r.content : r.content[i].type # "text")
                  /\ replies[c] # <<>>
               THEN Some(_extract_text(replies[c][1]))
               ELSE Some(_extract_text(r))]
         /\ pc' = [pc EXCEPT ![c] = "done"]
    ELSE /\ pc' = [pc EXCEPT ![c] = "round"]
         /\ UNCHANGED answer

\* Lines 91-93, 124: what follows a response r with the loop variable at rn.
\* Either the loop is over (range exhausted, or break) and the call returns
\* _extract_text(r), or a round begins.
LoopHead(c, r, rn) ==
    IF ~InRange(rn) \/ BreakLoop(r, args[c].tool_manager)
    THEN /\ answer' = [answer EXCEPT ![c] = Some(_extract_text(r))]
         /\ pc' = [pc EXCEPT ![c] = "done"]
    ELSE /\ pc' = [pc EXCEPT ![c] = "round"]
         /\ UNCHANGED answer

\* Mutant: a response to a request that offered no tools never starts a round.
CreateStopsWithoutTools(c, p, rn) ==
    /\ calls' = [calls EXCEPT ![c] = Append(@, p)]
    /\ \/ \E r \in Responses(client, Len(calls[c]) + 1) :
             /\ response' = [response EXCEPT ![c] = r]
             /\ replies' = [replies EXCEPT ![c] = Append(@, r)]
             /\ LoopHead(c, r, IF "tools" \in DOMAIN p THEN rn ELSE MAX_TOOL_ROUNDS)
       \/ /\ pc' = [pc EXCEPT ![c] = "raised"]
          /\ UNCHANGED <<response, replies, answer>>

\* Mutant: a failing model call is caught and the fallback is returned.
CreateSwallowsFailure(c, p, rn) ==
    /\ calls' = [calls EXCEPT ![c] = Append(@, p)]
    /\ \/ \E r \in Responses(client, Len(calls[c]) + 1) :
             /\ response' = [response EXCEPT ![c] = r]
             /\ replies' = [replies EXCEPT ![c] = Append(@, r)]
             /\ LoopHead(c, r, rn)
       \/ /\ pc' = [pc EXCEPT ![c] = "done"]
          /\ answer' = [answer EXCEPT ![c] =
                Some(<<"I was unable to generate a response.">>)]
          /\ UNCHANGED <<response, replies>>

\* self.client.messages.create(**p): the request is recorded; the client
\* returns a response or raises, and a raise leaves generate_response.
Create(c, p, rn) ==
    /\ calls' = [calls EXCEPT ![c] = Append(@, p)]
    /\ \/ \E r \in Responses(client, Len(calls[c]) + 1) :
             /\ response' = [response EXCEPT ![c] = r]
             /\ replies' = [replies EXCEPT ![c] = Append(@, r)]
             /\ LoopHead(c, r, rn)
       \/ /\ pc' = [pc EXCEPT ![c] = "raised"]
          /\ UNCHANGED <<response, replies, answer>>

\* Lines 68-93: build system_content and api_params, issue the initial call.
FirstCall(c) ==
    /\ pc[c] = "start"
    /\ LET p == InitialParams(args[c])
       IN /\ api_params' = [api_params EXCEPT ![Slot(c)] = p]
          /\ Create(c, p, 0)
    /\ round_num' = [round_num EXCEPT ![c] = 0]
    /\ UNCHANGED <<client, args, blk, tool_results, tool_failed, execs>>

\* Lines 95-100: enter the round, append the assistant message.
BeginRound(c) ==
    /\ pc[c] = "round"
    /\ api_params' = [api_params EXCEPT ![Slot(c)] =
          Put(@, "messages", Append(@.messages, AssistantMessage(response[c])))]
    /\ tool_results' = [tool_results EXCEPT ![c] = <<>>]
    /\ tool_failed' = [tool_failed EXCEPT ![c] = FALSE]
    /\ blk' = [blk EXCEPT ![c] = 1]
    /\ pc' = [pc EXCEPT ![c] = "exec"]
    /\ UNCHANGED <<client, args, response, round_num, calls, replies, execs, answer>>

\* Lines 101-112: one iteration of `for block in response.content`.
ExecBlock(c) ==
    /\ pc[c] = "exec"
    /\ blk[c] <= Len(response[c].content)
    /\ LET block == response[c].content[blk[c]]
       IN IF block.type = "tool_use"
          THEN \E o \in ToolOutcomes(block.name) :
                 LET result == IF o.raised THEN ErrorResult(o.value) ELSE o.value
                 IN /\ execs' = [execs EXCEPT ![c] =
                          Append(@, [name |-> block.name, input |-> block.input,
                                     id |-> block.id, round |-> round_num[c],
                                     raised |-> o.raised, value |-> o.value])]
                    /\ tool_results' = [tool_results EXCEPT ![c] =
                          Append(@, ToolResult(block, result))]
                    /\ tool_failed' = [tool_failed EXCEPT ![c] = @ \/ MarksFailure(o)]
                    /\ blk' = [blk EXCEPT ![c] = NextBlock(@, o.raised)]
                    /\ pc' = [pc EXCEPT ![c] = AfterTool(o.raised)]
          ELSE /\ blk' = [blk EXCEPT ![c] = NextBlock(@, FALSE)]
               /\ UNCHANGED <<pc, execs, tool_results, tool_failed>>
    /\ UNCHANGED <<client, args, api_params, response, round_num, calls, replies, answer>>

\* Mutant: the request is rebuilt from the arguments after every round, with
\* the tools unless a tool raised in that round.
EndRoundRebuild(c) ==
    /\ pc[c] = "exec"
    /\ blk[c] > Len(response[c].content)
    /\ LET withResults == Put(api_params[Slot(c)], "messages",
                              Append(api_params[Slot(c)].messages,
                                     UserMessage(tool_results[c])))
           p == IF ~tool_failed[c] /\ Truthy(args[c].tools)
                THEN Put(Put(withResults, "tools", args[c].tools.val),
                         "tool_choice", [type |-> "auto"])
                ELSE Pop(Pop(withResults, "tools"), "tool_choice")
       IN /\ api_params' = [api_params EXCEPT ![Slot(c)] = p]
          /\ Create(c, p, round_num[c] + 1)
    /\ round_num' = [round_num EXCEPT ![c] = @ + 1]
    /\ UNCHANGED <<client, args, blk, tool_results, tool_failed, execs>>

\* Lines 114-124: append the results, drop the tools if due, call the model,
\* go round the loop.
EndRound(c) ==
    /\ pc[c] = "exec"
    /\ blk[c] > Len(response[c].content)
    /\ LET withResults == Put(api_params[Slot(c)], "messages",
                              Append(api_params[Slot(c)].messages,
                                     UserMessage(tool_results[c])))
           p == ParamsForNextCall(withResults, tool_failed[c], round_num[c])
       IN /\ api_params' = [api_params EXCEPT ![Slot(c)] = p]
          /\ Create(c, p, round_num[c] + 1)
    /\ round_num' = [round_num EXCEPT ![c] = @ + 1]
    /\ UNCHANGED <<client, args, blk, tool_results, tool_failed, execs>>

Next ==
    \E c \in Procs :
        \/ FirstCall(c)
        \/ BeginRound(c)
        \/ ExecBlock(c)
        \/ EndRound(c)

Spec == Init /\ [][Next]_vars

SpecHistory == InitHistory /\ [][Next]_vars

SpecConcurrent == InitConcurrent /\ [][Next]_vars
SpecTwin == InitTwin /\ [][Next]_vars
SpecEmptyHistory == InitEmptyHistory /\ [][Next]_vars

----------------------------------------------------------------------------
\* Vocabulary of the properties

Terminal(c) == pc[c] \in {"off", "done", "raised"}
Messages(c) == api_params[Slot(c)].messages
IsToolUse(b) == b.type = "tool_use"
ToolUses(content) == SelectSeq(content, IsToolUse)
HasTools(request) == "tools" \in DOMAIN request
HasToolChoice(request) == "tool_choice" \in DOMAIN request
RoundsBegun(c) ==
    IF pc[c] \in {"off", "start"} THEN 0
    ELSE Cardinality({i \in DOMAIN Messages(c) : Messages(c)[i].role = "assistant"})
ExecsOfRound(c, r) == SelectSeq(execs[c], LAMBDA e : e.round = r)
RaisedInRound(c, r) == \E i \in DOMAIN execs[c] : execs[c][i].round = r /\ execs[c][i].raised
TextResponse(r) == r.stop_reason = "end_turn" /\ r.content # <<>> /\ r.content[1].type = "text"
Min(a, b) == IF a < b THEN a ELSE b
IsPrefix(a, b) == Len(a) <= Len(b) /\ SubSeq(b, 1, Len(a)) = a
\* The ToolResult block the transcript should hold for one recorded execution.
ExpectedResult(e) ==
    [type |-> "tool_result", tool_use_id |-> e.id,
     content |-> IF e.raised THEN <<"Error executing tool: ">> \o e.value ELSE e.value]
ExpectedResults(c, r) ==
    LET ex == ExecsOfRound(c, r) IN [j \in 1..Len(ex) |-> ExpectedResult(ex[j])]
\* Round r is over once the model call after it has been issued; its user
\* message is then the (2r+3)-th message of that request.
RoundOver(c, r) == Len(calls[c]) >= r + 2
UserMessageOfRound(c, r) == calls[c][r + 2].messages[2 * r + 3]
\* The blocks of round r's response the inner loop has gone past.
Processed(c, r) ==
    IF RoundOver(c, r) THEN replies[c][r + 1].content
    ELSE IF pc[c] = "exec" /\ round_num[c] = r
         THEN SubSeq(response[c].content, 1, Min(blk[c] - 1, Len(response[c].content)))
         ELSE <<>>
Rounds == 0..MAX_TOOL_ROUNDS
OneToolUse(r) == r.stop_reason = "tool_use" /\ Len(ToolUses(r.content)) = 1

\* An upper bound of the steps a call still takes: a round is BeginRound,
\* at most one ExecBlock per block, EndRound.
MaxRoundSteps == MaxBlocks + 2
Rank(c) ==
    CASE pc[c] = "start" -> 1 + MAX_TOOL_ROUNDS * MaxRoundSteps
      [] pc[c] = "round" -> (MAX_TOOL_ROUNDS - round_num[c]) * MaxRoundSteps
      [] pc[c] = "exec" -> (MAX_TOOL_ROUNDS - round_num[c] - 1) * MaxRoundSteps
                           + (Len(response[c].content) + 1 - blk[c]) + 1
      [] OTHER -> 0
TotalRank == Rank(1) + Rank(2)

----------------------------------------------------------------------------
\* C1: generate_response terminates after at most MAX_TOOL_ROUNDS + 1 model
\* calls and MAX_TOOL_ROUNDS tool rounds, whatever the model answers and
\* whatever the tools do: the counts are bounded in every state, every step
\* lowers a natural-number rank, and a call that has not returned or raised
\* can always take a step.
C1_BoundedTermination ==
    /\ [](\A c \in Procs :
            /\ Len(calls[c]) <= MAX_TOOL_ROUNDS + 1
            /\ RoundsBegun(c) <= MAX_TOOL_ROUNDS
            /\ round_num[c] <= MAX_TOOL_ROUNDS
            /\ Rank(c) >= 0
            /\ ~Terminal(c) =>
                  ENABLED (FirstCall(c) \/ BeginRound(c) \/ ExecBlock(c) \/ EndRound(c)))
    /\ [][TotalRank' < TotalRank]_vars

\* C1 witness: the model answered tool_use on all three calls, a tool raised,
\* and the call has returned after two rounds.
C1_Witness ==
    /\ pc[1] = "done"
    /\ Len(calls[1]) = MAX_TOOL_ROUNDS + 1
    /\ round_num[1] = MAX_TOOL_ROUNDS
    /\ \A k \in DOMAIN replies[1] : replies[1][k].stop_reason = "tool_use"
    /\ RaisedInRound(1, 0)

\* C2: if the first response's stop_reason is not tool_use, the call makes
\* exactly one model call, executes no tool and appends nothing to the
\* transcript, with or without tool schemas and a tool manager.
C2_DirectAnswer ==
    \A c \in Procs :
        (Len(replies[c]) >= 1 /\ replies[c][1].stop_reason # "tool_use") =>
            /\ pc[c] = "done"
            /\ Len(calls[c]) = 1
            /\ Len(replies[c]) = 1
            /\ execs[c] = <<>>
            /\ Messages(c) = <<[role |-> "user", content |-> args[c].query]>>

\* C2 witness: schemas and a manager were supplied and the first response,
\* which even holds a tool_use block, stopped for another reason than
\* end_turn or tool_use.
C2_Witness ==
    /\ pc[1] = "done"
    /\ Truthy(args[1].tools) /\ HasManager(args[1].tool_manager)
    /\ replies[1][1].stop_reason = "max_tokens"
    /\ ToolUses(replies[1][1].content) # <<>>

\* C3: the model call after the last permitted round (round_num =
\* MAX_TOOL_ROUNDS - 1) carries neither tools nor tool_choice, even if every
\* tool succeeded; two tool_use responses of one ToolUse block each followed
\* by a text response give exactly 3 model calls and 2 execute_tool calls.
C3_LastRoundDropsTools ==
    \A c \in Procs :
        /\ Len(calls[c]) >= MAX_TOOL_ROUNDS + 1 =>
              /\ ~HasTools(calls[c][MAX_TOOL_ROUNDS + 1])
              /\ ~HasToolChoice(calls[c][MAX_TOOL_ROUNDS + 1])
        /\ (/\ Len(replies[c]) >= 3
            /\ OneToolUse(replies[c][1]) /\ OneToolUse(replies[c][2])
            /\ TextResponse(replies[c][3])) =>
              /\ pc[c] = "done"
              /\ Len(calls[c]) = 3
              /\ Len(execs[c]) = 2

\* C3 witness: schemas were supplied, both rounds ran with every tool
\* succeeding, and the third response is text.
C3_Witness ==
    /\ pc[1] = "done"
    /\ Truthy(args[1].tools)
    /\ Len(replies[1]) = 3
    /\ OneToolUse(replies[1][1]) /\ OneToolUse(replies[1][2])
    /\ TextResponse(replies[1][3])
    /\ \A i \in DOMAIN execs[1] : ~execs[1][i].raised
    /\ HasTools(calls[1][2])

\* C4: with tool schemas supplied, when round 0 completes with no tool
\* raising, the second model call carries the same schemas and the auto
\* directive; one tool_use response with a single ToolUse block followed by
\* an end_turn response gives exactly 2 model calls and one execute_tool
\* call, made with that block's name and input.
C4_ToolsKeptAfterRoundZero ==
    \A c \in Procs :
        /\ (Truthy(args[c].tools) /\ RoundOver(c, 0) /\ ~RaisedInRound(c, 0)) =>
              /\ HasTools(calls[c][2]) /\ HasToolChoice(calls[c][2])
              /\ calls[c][2].tools = args[c].tools.val
              /\ calls[c][2].tool_choice = [type |-> "auto"]
        /\ (/\ Len(replies[c]) >= 2
            /\ OneToolUse(replies[c][1])
            /\ replies[c][2].stop_reason = "end_turn") =>
              /\ pc[c] = "done"
              /\ Len(calls[c]) = 2
              /\ Len(execs[c]) = 1
              /\ execs[c][1].name = ToolUses(replies[c][1].content)[1].name
              /\ execs[c][1].input = ToolUses(replies[c][1].content)[1].input

\* C4 witness: schemas supplied, the one tool of round 0 returned, the second
\* response is end_turn and the call has returned.
C4_Witness ==
    /\ pc[1] = "done"
    /\ args[1].tools = Some(sample_tools)
    /\ Len(replies[1]) = 2
    /\ OneToolUse(replies[1][1])
    /\ TextResponse(replies[1][2])
    /\ ~execs[1][1].raised
    /\ HasTools(calls[1][2])

\* C5: if any tool execution raises during a round, the model call issued
\* right after that round carries no tools and no tool_choice, also when the
\* round is not the last permitted one.
C5_FailureDropsTools ==
    \A c \in Procs : \A r \in Rounds :
        (RoundOver(c, r) /\ RaisedInRound(c, r)) =>
            /\ ~HasTools(calls[c][r + 2])
            /\ ~HasToolChoice(calls[c][r + 2])

\* C5 witness: the first call offered the tools, a tool raised in round 0
\* (not the last round) while another one returned, and the second call has
\* been issued.
C5_Witness ==
    /\ RoundOver(1, 0)
    /\ HasTools(calls[1][1])
    /\ RaisedInRound(1, 0)
    /\ \E i \in DOMAIN execs[1] : execs[1][i].round = 0 /\ ~execs[1][i].raised

\* C6: a failure raised by a tool execution never leaves generate_response:
\* only a failing model call does; the ToolResult of the block holds
\* "Error executing tool: " followed by the failure's message, and the call
\* goes on to the next model call.
C6_ToolFailureCaught ==
    \A c \in Procs :
        /\ pc[c] = "raised" => Len(calls[c]) = Len(replies[c]) + 1
        /\ \A r \in Rounds :
             LET ex == ExecsOfRound(c, r)
                 results == IF RoundOver(c, r) THEN UserMessageOfRound(c, r).content
                            ELSE tool_results[c]
             IN RaisedInRound(c, r) =>
                  /\ RoundOver(c, r) \/
                       (pc[c] = "exec" /\ round_num[c] = r /\ ENABLED (ExecBlock(c) \/ EndRound(c)))
                  /\ Len(results) = Len(ex)
                  /\ \A j \in DOMAIN ex :
                       ex[j].raised =>
                          /\ results[j].tool_use_id = ex[j].id
                          /\ results[j].content = <<"Error executing tool: ">> \o ex[j].value

\* C6 witness: a tool raised in round 0 and the second model call was issued
\* and answered.
C6_Witness ==
    /\ RaisedInRound(1, 0)
    /\ Len(replies[1]) >= 2
    /\ UserMessageOfRound(1, 0).content[1].content =
          <<"Error executing tool: ", "connection failed">>

\* C7: at every model call, every assistant message of the transcript is
\* followed by a user message holding exactly one ToolResult per ToolUse
\* block, in order, with tool_use_id equal to the block's id; every later
\* user message follows an assistant message; all tool calls of a round are
\* executed before the next model call.
C7_ToolResultPairing ==
    \A c \in Procs : \A k \in DOMAIN calls[c] :
        LET m == calls[c][k].messages
        IN /\ m[1] = [role |-> "user", content |-> args[c].query]
           /\ \A i \in DOMAIN m :
                /\ m[i].role = "assistant" =>
                     /\ i < Len(m)
                     /\ m[i + 1].role = "user"
                     /\ LET tu == ToolUses(m[i].content)
                            res == m[i + 1].content
                        IN /\ Len(res) = Len(tu)
                           /\ \A j \in DOMAIN res :
                                /\ res[j].type = "tool_result"
                                /\ res[j].tool_use_id = tu[j].id
                /\ (i > 1 /\ m[i].role = "user") => m[i - 1].role = "assistant"
           /\ k >= 2 =>
                Len(ExecsOfRound(c, k - 2)) = Len(ToolUses(replies[c][k - 1].content))

\* C7 witness: the third model call was issued after a round with two
\* ToolUse blocks, one of which raised, and a round with a text block before
\* its ToolUse block.
C7_Witness ==
    /\ Len(calls[1]) = 3
    /\ Len(ToolUses(replies[1][1].content)) = 2
    /\ RaisedInRound(1, 0)
    /\ Len(replies[1][2].content) = 2
    /\ replies[1][2].content[1].type = "text"
    /\ Len(ToolUses(replies[1][2].content)) = 1

\* C8: the transcript is append-only and grows by exactly two messages per
\* round: the messages of call k+1 are those of call k, then an assistant
\* message with the full content of response k, then one user message with
\* all the results of that round; the roles are user, (assistant, user)*.
C8_TranscriptGrowth ==
    \A c \in Procs :
        /\ \A k \in DOMAIN calls[c] :
             LET m == calls[c][k].messages
             IN /\ Len(m) = 2 * k - 1
                /\ \A i \in DOMAIN m :
                     m[i].role = IF i % 2 = 1 THEN "user" ELSE "assistant"
                /\ k > 1 =>
                     /\ IsPrefix(calls[c][k - 1].messages, m)
                     /\ m[2 * k - 2] =
                          [role |-> "assistant", content |-> replies[c][k - 1].content]
                     /\ m[2 * k - 1] =
                          [role |-> "user", content |-> ExpectedResults(c, k - 2)]
        /\ calls[c] # <<>> => IsPrefix(calls[c][Len(calls[c])].messages, Messages(c))

\* C8 witness: two rounds ran, the first on a response with a text block and
\* a ToolUse block, and the third call carried five messages.
C8_Witness ==
    /\ Len(calls[1]) = 3
    /\ Len(calls[1][3].messages) = 5
    /\ Len(replies[1][1].content) = 2
    /\ replies[1][1].content[1].type = "text"
    /\ replies[1][1].content[2].type = "tool_use"

\* C9: within a round every ToolUse block of the response is executed
\* exactly once, in the order of the blocks, whichever of them raise: the
\* executions recorded for the round are those of the ToolUse blocks the
\* inner loop has gone past, and the user message of a finished round holds
\* one result per ToolUse block.
C9_EveryBlockExecuted ==
    \A c \in Procs : \A r \in Rounds :
        LET ex == ExecsOfRound(c, r)
            tu == ToolUses(Processed(c, r))
        IN /\ Len(ex) = Len(tu)
           /\ \A j \in DOMAIN ex :
                /\ ex[j].id = tu[j].id
                /\ ex[j].name = tu[j].name
                /\ ex[j].input = tu[j].input
           /\ RoundOver(c, r) =>
                /\ Len(UserMessageOfRound(c, r).content) = Len(tu)
                /\ Len(tu) = Len(ToolUses(replies[c][r + 1].content))

\* C9 witness: in a finished round the first of two ToolUse blocks raised and
\* the second was executed all the same.
C9_Witness ==
    /\ RoundOver(1, 0)
    /\ Len(ExecsOfRound(1, 0)) = 2
    /\ ExecsOfRound(1, 0)[1].raised
    /\ ExecsOfRound(1, 0)[2].id = replies[1][1].content[2].id

\* C10: within one call, once a model call has been issued without tool
\* schemas, every later model call is issued without them as well.
C10_ToolsNeverReenabled ==
    \A c \in Procs : \A j, k \in DOMAIN calls[c] :
        (j < k /\ ~HasTools(calls[c][j])) =>
            /\ ~HasTools(calls[c][k])
            /\ ~HasToolChoice(calls[c][k])

\* C10 witness: schemas were supplied, a failure in round 0 removed them from
\* the second call, round 1 ran without a failure and the third call was
\* issued.
C10_Witness ==
    /\ Len(calls[1]) = 3
    /\ HasTools(calls[1][1])
    /\ ~HasTools(calls[1][2])
    /\ ~RaisedInRound(1, 1)
    /\ ExecsOfRound(1, 1) # <<>>

----------------------------------------------------------------------------
\* Vocabulary of the properties about the answer

FallbackText == <<"I was unable to generate a response.">>
TextIndices(content) == {i \in DOMAIN content : content[i].type = "text"}
MinOf(S) == CHOOSE x \in S : \A y \in S : x <= y
InitialTranscript(c) == <<[role |-> "user", content |-> args[c].query]>>
LastReply(c) == replies[c][Len(replies[c])]

\* C11: with no tool manager, a first response with stop_reason tool_use
\* ends the call at once: one model call, nothing appended to the
\* transcript, nothing executed, and the answer is the text of the
\* response's first Text block, or the fallback string if it has none.
C11_NoManagerEndsCall ==
    \A c \in Procs :
        (/\ ~HasManager(args[c].tool_manager)
         /\ Len(replies[c]) >= 1
         /\ replies[c][1].stop_reason = "tool_use") =>
            LET content == replies[c][1].content
            IN /\ pc[c] = "done"
               /\ Len(calls[c]) = 1
               /\ Len(replies[c]) = 1
               /\ execs[c] = <<>>
               /\ Messages(c) = InitialTranscript(c)
               /\ answer[c] = IF TextIndices(content) = {} THEN Some(FallbackText)
                              ELSE Some(content[MinOf(TextIndices(content))].text)

\* C11 witness: schemas but no manager were supplied, the first response is
\* tool_use with a text block before its ToolUse block, and the call has
\* returned that text.
C11_Witness ==
    /\ pc[1] = "done"
    /\ args[1].tool_manager = None
    /\ args[1].tools = Some(sample_tools)
    /\ replies[1][1].stop_reason = "tool_use"
    /\ Len(replies[1][1].content) = 2
    /\ replies[1][1].content[1].type = "text"
    /\ replies[1][1].content[2].type = "tool_use"
    /\ answer[1] = Some(replies[1][1].content[1].text)

\* The chunks of a string, and the marker that introduces the history.
Chunks(str) == {str[i] : i \in DOMAIN str}
HistoryMarker == "\n\nPrevious conversation:\n"

\* C12 as stated: whenever a conversation history is supplied (not None),
\* the system text of every model call is the base instructions, the marker
\* and the history; with no history it is the base instructions, without
\* the marker.
C12_AsStated ==
    \A c \in Procs : \A k \in DOMAIN calls[c] :
        LET h == args[c].conversation_history
        IN IF h.none
           THEN /\ calls[c][k].system = SYSTEM_PROMPT
                /\ HistoryMarker \notin Chunks(calls[c][k].system)
           ELSE calls[c][k].system = SYSTEM_PROMPT \o <<HistoryMarker>> \o h.val

\* C12 amended: with a non-empty conversation history, the system text of
\* every model call is the base instructions, the marker "Previous
\* conversation:" and the history verbatim; with no history or an empty
\* one it is the base instructions unchanged, without the marker.
C12_SystemText ==
    \A c \in Procs : \A k \in DOMAIN calls[c] :
        LET h == args[c].conversation_history
        IN IF h.none \/ h.val = <<>>
           THEN /\ calls[c][k].system = SYSTEM_PROMPT
                /\ HistoryMarker \notin Chunks(calls[c][k].system)
           ELSE calls[c][k].system = SYSTEM_PROMPT \o <<HistoryMarker>> \o h.val

\* C12 witness: a history text was supplied and the third model call of the
\* call carried it after the marker.
C12_Witness ==
    /\ Len(calls[1]) = 3
    /\ args[1].conversation_history = Some(<<"User: hello\nAI: hi there">>)
    /\ calls[1][3].system =
          <<"SYSTEM_PROMPT", "\n\nPrevious conversation:\n", "User: hello\nAI: hi there">>

\* C13: for every response with at least one Text block, the extractor
\* returns the text of the first Text block in content order, whatever
\* blocks precede or follow it and whatever the stop_reason: that is the
\* answer of every call that has returned.
C13_FirstTextBlock ==
    \A c \in Procs :
        (pc[c] = "done" /\ TextIndices(LastReply(c).content) # {}) =>
            answer[c] =
                Some(LastReply(c).content[MinOf(TextIndices(LastReply(c).content))].text)

\* C13 witness: the returned text stood after a ToolUse block in a response
\* whose stop_reason is tool_use.
C13_Witness ==
    /\ pc[1] = "done"
    /\ LastReply(1).stop_reason = "tool_use"
    /\ Len(LastReply(1).content) = 2
    /\ LastReply(1).content[1].type = "tool_use"
    /\ LastReply(1).content[2].type = "text"
    /\ answer[1] = Some(LastReply(1).content[2].text)

\* C14: for a response with no Text block the extractor returns "I was
\* unable to generate a response."; a call returns a string whenever all its
\* model calls succeeded (it leaves by an exception only when a model call
\* failed), also when the response after the last round is still tool_use.
C14_FallbackAnswer ==
    \A c \in Procs :
        /\ (pc[c] = "done" /\ TextIndices(LastReply(c).content) = {}) =>
              answer[c] = Some(<<"I was unable to generate a response.">>)
        /\ pc[c] = "done" => (~answer[c].none /\ answer[c].val # <<>>)
        /\ pc[c] = "raised" => Len(calls[c]) > Len(replies[c])
        /\ (Terminal(c) /\ calls[c] # <<>> /\ Len(calls[c]) = Len(replies[c])) =>
              pc[c] = "done"

\* C14 witness: both rounds ran, the response after the last round is
\* tool_use with ToolUse blocks only, and the call returned the fallback.
C14_Witness ==
    /\ pc[1] = "done"
    /\ round_num[1] = MAX_TOOL_ROUNDS
    /\ LastReply(1).stop_reason = "tool_use"
    /\ LastReply(1).content # <<>>
    /\ TextIndices(LastReply(1).content) = {}
    /\ answer[1] = Some(FallbackText)

\* C18: the answer is extracted from the last response received: it is a
\* text of that response or the fallback, and never a text of an earlier
\* response that was processed as a round, also when the last response has
\* no Text block.
C18_AnswerFromLastResponse ==
    \A c \in Procs :
        pc[c] = "done" =>
            /\ \/ answer[c] = Some(FallbackText)
               \/ \E i \in TextIndices(LastReply(c).content) :
                     answer[c] = Some(LastReply(c).content[i].text)
            /\ \A k \in 1..(Len(replies[c]) - 1) :
                 \A i \in TextIndices(replies[c][k].content) :
                     answer[c] # Some(replies[c][k].content[i].text)

\* C18 witness: the first response carried a text with its ToolUse block, the
\* last response has no Text block, and the fallback was returned.
C18_Witness ==
    /\ pc[1] = "done"
    /\ Len(replies[1]) >= 2
    /\ TextIndices(replies[1][1].content) # {}
    /\ ToolUses(replies[1][1].content) # <<>>
    /\ TextIndices(LastReply(1).content) = {}
    /\ answer[1] = Some(FallbackText)

\* C15: a tool execution that returns a string, the not-found text of an
\* unknown tool included, is a success: the string is the ToolResult content
\* verbatim and it does not remove the tools, so after a round that is not
\* the last one and in which no tool raised, the next model call carries the
\* schemas and directive of the call before it.
C15_ReturnedStringIsSuccess ==
    \A c \in Procs : \A r \in Rounds :
        RoundOver(c, r) =>
            LET ex == ExecsOfRound(c, r)
                results == UserMessageOfRound(c, r).content
            IN /\ \A j \in DOMAIN ex :
                    ~ex[j].raised =>
                        /\ j \in DOMAIN results
                        /\ results[j].content = ex[j].value
               /\ (/\ r < MAX_TOOL_ROUNDS - 1
                   /\ ~RaisedInRound(c, r)
                   /\ HasTools(calls[c][r + 1])) =>
                      /\ HasTools(calls[c][r + 2]) /\ HasToolChoice(calls[c][r + 2])
                      /\ calls[c][r + 2].tools = calls[c][r + 1].tools
                      /\ calls[c][r + 2].tool_choice = calls[c][r + 1].tool_choice

\* C15 witness: in round 0 the manager returned the not-found text for an
\* unknown tool; the text is the result's content and the second model call
\* still carries the schemas.
C15_Witness ==
    /\ RoundOver(1, 0)
    /\ Len(ExecsOfRound(1, 0)) = 1
    /\ ~ExecsOfRound(1, 0)[1].raised
    /\ ExecsOfRound(1, 0)[1].value = <<"Tool '", "get_course_outline", "' not found">>
    /\ UserMessageOfRound(1, 0).content[1].content =
          <<"Tool '", "get_course_outline", "' not found">>
    /\ HasTools(calls[1][2])

\* C16: a failure of the model client on any model call is not caught: the
\* call has left by the exception, no answer is returned, and the call takes
\* no further step (no tool execution, no model call).
C16_ModelFailurePropagates ==
    \A c \in Procs :
        Len(calls[c]) > Len(replies[c]) =>
            /\ Len(calls[c]) = Len(replies[c]) + 1
            /\ pc[c] = "raised"
            /\ answer[c] = None
            /\ ~ENABLED (FirstCall(c) \/ BeginRound(c) \/ ExecBlock(c) \/ EndRound(c))

\* C16 witness: the second model call, issued after a round with an executed
\* tool, failed.
C16_Witness ==
    /\ pc[1] = "raised"
    /\ Len(calls[1]) = 2
    /\ Len(replies[1]) = 1
    /\ execs[1] # <<>>

----------------------------------------------------------------------------
\* What a call run alone does, as a function of its own arguments, the
\* responses it received and the outcomes of its own tool executions.

AloneSystem(c) ==
    LET h == args[c].conversation_history
    IN IF h.none \/ h.val = <<>> THEN <<"SYSTEM_PROMPT">>
       ELSE <<"SYSTEM_PROMPT", "\n\nPrevious conversation:\n">> \o h.val
\* The transcript after n messages: the query, then per round the response's
\* content and the round's results.
AloneMessages(c, n) ==
    [i \in 1..n |->
        IF i = 1 THEN [role |-> "user", content |-> args[c].query]
        ELSE IF i % 2 = 0
             THEN [role |-> "assistant", content |-> replies[c][i \div 2].content]
             ELSE [role |-> "user", content |-> ExpectedResults(c, (i - 3) \div 2)]]
AloneToolsOn(c, k) ==
    /\ Truthy(args[c].tools)
    /\ \A r \in 0..(k - 2) : ~RaisedInRound(c, r) /\ r # MAX_TOOL_ROUNDS - 1
AloneRequest(c, k) ==
    IF AloneToolsOn(c, k)
    THEN [model |-> "test-model", temperature |-> 0, max_tokens |-> 800,
          messages |-> AloneMessages(c, 2 * k - 1), system |-> AloneSystem(c),
          tools |-> args[c].tools.val, tool_choice |-> [type |-> "auto"]]
    ELSE [model |-> "test-model", temperature |-> 0, max_tokens |-> 800,
          messages |-> AloneMessages(c, 2 * k - 1), system |-> AloneSystem(c)]
AloneAnswer(c) ==
    LET content == LastReply(c).content
    IN IF TextIndices(content) = {} THEN Some(FallbackText)
       ELSE Some(content[MinOf(TextIndices(content))].text)

\* C17: in every interleaving of two concurrent calls on one generator, each
\* call's requests and answer are those it produces when run alone, and its
\* transcript, round counter and tools state depend on its own responses
\* and tool outcomes only.
C17_CallsAreIsolated ==
    \A c \in Procs :
        /\ \A k \in DOMAIN calls[c] : calls[c][k] = AloneRequest(c, k)
        /\ pc[c] = "done" => answer[c] = AloneAnswer(c)
        /\ pc[c] \in {"round", "exec"} =>
              /\ round_num[c] = Len(calls[c]) - 1
              /\ HasTools(api_params[Slot(c)]) <=> AloneToolsOn(c, Len(calls[c]))
              /\ Messages(c) =
                    AloneMessages(c, IF pc[c] = "exec" THEN 2 * Len(calls[c])
                                     ELSE 2 * Len(calls[c]) - 1)
        /\ pc[c] = "exec" => tool_results[c] = ExpectedResults(c, round_num[c])

\* C17 witness: both calls are in the middle of their second round at the
\* same time, one with schemas and history and one without, each after a
\* first round of its own.
C17_Witness ==
    /\ pc[1] = "exec" /\ pc[2] = "exec"
    /\ round_num[1] = 1 /\ round_num[2] = 1
    /\ args[1].tools # args[2].tools
    /\ args[1].conversation_history # args[2].conversation_history
    /\ RaisedInRound(1, 0) /\ ~RaisedInRound(2, 0)
    /\ tool_results[1] # <<>>

----------------------------------------------------------------------------
\* C19: in every model request the directive {type: auto} is present exactly
\* when schemas are present; a caller that supplies no schemas or an empty
\* sequence gets no request with schemas or a directive; schemas that are
\* carried are the caller's schemas unchanged.
C19_DirectiveWithSchemas ==
    \A c \in Procs : \A k \in DOMAIN calls[c] :
        LET p == calls[c][k]
        IN /\ HasToolChoice(p) <=> HasTools(p)
           /\ HasToolChoice(p) => p.tool_choice = [type |-> "auto"]
           /\ ~Truthy(args[c].tools) => ~HasTools(p) /\ ~HasToolChoice(p)
           /\ HasTools(p) => p.tools = args[c].tools.val

\* C19 witness: a caller with an empty schema sequence and a tool manager
\* went through both rounds, so three requests were issued.
C19_Witness ==
    /\ args[1].tools = Some(<<>>)
    /\ HasManager(args[1].tool_manager)
    /\ Len(calls[1]) = MAX_TOOL_ROUNDS + 1
    /\ \A k \in DOMAIN calls[1] : ~HasTools(calls[1][k])

----------------------------------------------------------------------------
\* The ToolResult blocks of round r placed so far: the round's user message
\* once it is in a request, the list under construction while the round runs.
ResultsOfRound(c, r) ==
    IF RoundOver(c, r) THEN UserMessageOfRound(c, r).content
    ELSE IF pc[c] = "exec" /\ round_num[c] = r THEN tool_results[c]
         ELSE <<>>

\* C20 as stated: every ToolResult block carries an is_error flag, false
\* when the execution returned and true when it raised.
C20_AsStated ==
    \A c \in Procs : \A r \in Rounds :
        LET ex == ExecsOfRound(c, r)
            results == ResultsOfRound(c, r)
        IN \A j \in DOMAIN results :
              /\ "is_error" \in DOMAIN results[j]
              /\ results[j].is_error = ex[j].raised

\* C20 (amended): every ToolResult block placed in the transcript has exactly
\* the fields type, tool_use_id and content and no is_error flag; content is
\* the returned string when the execution returned, and "Error executing
\* tool: " followed by the failure message when it raised.
C20_ToolResultFields ==
    \A c \in Procs : \A r \in Rounds :
        LET ex == ExecsOfRound(c, r)
            results == ResultsOfRound(c, r)
        IN /\ Len(results) = Len(ex)
           /\ \A j \in DOMAIN results :
                /\ DOMAIN results[j] = {"type", "tool_use_id", "content"}
                /\ results[j].type = "tool_result"
                /\ results[j].tool_use_id = ex[j].id
                /\ results[j].content =
                      IF ex[j].raised THEN <<"Error executing tool: ">> \o ex[j].value
                      ELSE ex[j].value

\* C20 witness: a request whose transcript holds, for one round, the result
\* of an execution that raised next to the result of one that returned.
C20_Witness ==
    /\ RoundOver(1, 0)
    /\ Len(ExecsOfRound(1, 0)) = 2
    /\ ExecsOfRound(1, 0)[1].raised
    /\ ~ExecsOfRound(1, 0)[2].raised
    /\ UserMessageOfRound(1, 0).content[1].content[1] = "Error executing tool: "
    /\ UserMessageOfRound(1, 0).content[2].content = ExecsOfRound(1, 0)[2].value

----------------------------------------------------------------------------
\* What a call received from its collaborators and what it asked of them.
ToolOutcomesOf(c) ==
    [i \in DOMAIN execs[c] |-> [raised |-> execs[c][i].raised, value |-> execs[c][i].value]]
ExecuteCallsOf(c) ==
    [i \in DOMAIN execs[c] |-> [name |-> execs[c][i].name, input |-> execs[c][i].input]]
AgreeUpTo(s, t, n) == \A i \in 1..n : s[i] = t[i]
AgreeOnCommon(s, t) == AgreeUpTo(s, t, Min(Len(s), Len(t)))

\* C21: two calls given the same query, history and schemas that received
\* the same model responses and the same tool outcomes (returns and raises)
\* so far have issued the same model requests and execute calls so far; once
\* they received the same full sequences, one has returned exactly if the
\* other has, with the same answer, the same requests and the same execute
\* calls.
C21_Deterministic ==
    (/\ args[1] = args[2]
     /\ AgreeOnCommon(replies[1], replies[2])
     /\ AgreeOnCommon(ToolOutcomesOf(1), ToolOutcomesOf(2)))
    => /\ AgreeOnCommon(calls[1], calls[2])
       /\ AgreeOnCommon(ExecuteCallsOf(1), ExecuteCallsOf(2))
       /\ (replies[1] = replies[2] /\ ToolOutcomesOf(1) = ToolOutcomesOf(2)) =>
             /\ pc[1] = "done" <=> pc[2] = "done"
             /\ answer[1] = answer[2]
             /\ (pc[1] = "done" /\ pc[2] = "done") =>
                   /\ calls[1] = calls[2]
                   /\ ExecuteCallsOf(1) = ExecuteCallsOf(2)

\* C21 witness: both calls returned after a tool failure in round 0 and the
\* exhaustion of the rounds, given the same responses and outcomes.
C21_Witness ==
    /\ pc[1] = "done" /\ pc[2] = "done"
    /\ args[1] = args[2]
    /\ Len(replies[1]) = MAX_TOOL_ROUNDS + 1
    /\ replies[1] = replies[2]
    /\ ToolOutcomesOf(1) = ToolOutcomesOf(2)
    /\ RaisedInRound(1, 0) /\ ~RaisedInRound(1, 1)
    /\ replies[1][MAX_TOOL_ROUNDS + 1].stop_reason = "tool_use"
    /\ ~answer[1].none

----------------------------------------------------------------------------
\* Round r follows the (r+1)-th response. It was entered if the call went
\* past the loop's break test after that response; it is due by the
\* response's stop_reason, the tool manager and the round budget.
RoundEntered(c, r) ==
    /\ Len(replies[c]) >= r + 1
    /\ \/ Len(calls[c]) >= r + 2
       \/ Len(replies[c]) = r + 1 /\ pc[c] \in {"round", "exec"}
RoundDue(c, r) ==
    /\ r < MAX_TOOL_ROUNDS
    /\ replies[c][r + 1].stop_reason = "tool_use"
    /\ HasManager(args[c].tool_manager)

\* C22: a round is entered exactly when the latest response has stop_reason
\* tool_use, a tool manager is present and a round remains, whether or not
\* the request that produced the response offered tools; once the round is
\* over every ToolUse block of the response has been executed, in order,
\* and the next model call has been made.
C22_RoundIgnoresOfferedTools ==
    \A c \in Procs : \A r \in Rounds :
        Len(replies[c]) >= r + 1 =>
            /\ RoundEntered(c, r) <=> RoundDue(c, r)
            /\ (RoundDue(c, r) /\ ~HasTools(calls[c][r + 1]) /\ Terminal(c)) =>
                  Len(calls[c]) >= r + 2
            /\ RoundOver(c, r) =>
                  LET tu == ToolUses(replies[c][r + 1].content)
                      ex == ExecsOfRound(c, r)
                  IN /\ Len(ex) = Len(tu)
                     /\ \A j \in DOMAIN tu : ex[j].id = tu[j].id /\ ex[j].name = tu[j].name

\* C22 witness: a tool raised in round 0, so the second request carried no
\* schemas; the second response asked for a tool again, the tool was
\* executed in round 1 and a third model call was made.
C22_Witness ==
    /\ Len(calls[1]) = 3
    /\ Truthy(args[1].tools)
    /\ RaisedInRound(1, 0)
    /\ HasTools(calls[1][1]) /\ ~HasTools(calls[1][2])
    /\ replies[1][2].stop_reason = "tool_use"
    /\ Len(ExecsOfRound(1, 1)) >= 1
    /\ ExecsOfRound(1, 1)[1].id = ToolUses(replies[1][2].content)[1].id

----------------------------------------------------------------------------
\* C23: with a tool manager, a response with stop_reason tool_use and no
\* ToolUse block still consumes its round: nothing is executed, the
\* assistant message and a user message with an empty content sequence are
\* appended, and another model call is issued, with the tools kept unless
\* it was the last round.
C23_EmptyRoundConsumed ==
    \A c \in Procs : \A r \in Rounds :
        (/\ Len(replies[c]) >= r + 1
         /\ RoundDue(c, r)
         /\ ToolUses(replies[c][r + 1].content) = <<>>) =>
            /\ ExecsOfRound(c, r) = <<>>
            /\ pc[c] \in {"round", "exec"} \/ RoundOver(c, r)
            /\ (pc[c] \in {"round", "exec"} /\ ~RoundOver(c, r)) => round_num[c] = r
            /\ RoundOver(c, r) =>
                  /\ calls[c][r + 2].messages =
                        calls[c][r + 1].messages \o
                           <<[role |-> "assistant", content |-> replies[c][r + 1].content],
                             [role |-> "user", content |-> <<>>]>>
                  /\ HasTools(calls[c][r + 2]) <=>
                        (HasTools(calls[c][r + 1]) /\ r # MAX_TOOL_ROUNDS - 1)
                  /\ HasToolChoice(calls[c][r + 2]) <=> HasTools(calls[c][r + 2])

\* C23 witness: both rounds were consumed by tool_use responses without a
\* ToolUse block, the first one holding a text block; the request after
\* round 0 kept the tools, the one after round 1 dropped them.
C23_Witness ==
    /\ Len(calls[1]) = 3
    /\ Truthy(args[1].tools) /\ HasManager(args[1].tool_manager)
    /\ replies[1][1].stop_reason = "tool_use"
    /\ replies[1][1].content # <<>>
    /\ ToolUses(replies[1][1].content) = <<>>
    /\ replies[1][2].stop_reason = "tool_use"
    /\ replies[1][2].content = <<>>
    /\ execs[1] = <<>>
    /\ calls[1][2].messages[3] = [role |-> "user", content |-> <<>>]
    /\ HasTools(calls[1][2]) /\ ~HasTools(calls[1][3])

----------------------------------------------------------------------------
\* C24: a call given the empty string as history behaves as a call given no
\* history: the system text of every model call of either is the base
\* instructions alone, without the "Previous conversation:" marker, and on
\* the same responses and tool outcomes the two issue the same requests and
\* return the same answer.
C24_EmptyHistoryAsAbsent ==
    (/\ args[1].conversation_history = None
     /\ args[2].conversation_history = Some(<<>>)) =>
        /\ \A c \in Procs : \A k \in DOMAIN calls[c] :
              /\ calls[c][k].system = <<"SYSTEM_PROMPT">>
              /\ HistoryMarker \notin Chunks(calls[c][k].system)
        /\ (/\ AgreeOnCommon(replies[1], replies[2])
            /\ AgreeOnCommon(ToolOutcomesOf(1), ToolOutcomesOf(2))) =>
              AgreeOnCommon(calls[1], calls[2])
        /\ (/\ replies[1] = replies[2]
            /\ ToolOutcomesOf(1) = ToolOutcomesOf(2)) => answer[1] = answer[2]

\* C24 witness: the call given the empty string and the call given no
\* history both returned after three model calls on the same responses.
C24_Witness ==
    /\ args[1].conversation_history = None
    /\ args[2].conversation_history = Some(<<>>)
    /\ pc[1] = "done" /\ pc[2] = "done"
    /\ Len(calls[2]) = 3
    /\ replies[1] = replies[2]
    /\ ToolOutcomesOf(1) = ToolOutcomesOf(2)
    /\ calls[2][3].system = <<"SYSTEM_PROMPT">>
    /\ calls[1] = calls[2]

====
